---------------------------- MODULE Spec2Model ----------------------------
(***************************************************************************)
(* Model of scripts/exclude_seqs_by_blast.py: main() screens the sequences *)
(* of a query FASTA file against a subject database and splits them into   *)
(* matching.fna and non-matching.fna.                                      *)
(*                                                                         *)
(* main() is modelled step by step (one action per commented block of the  *)
(* script).  The library functions it imports from                         *)
(* qiime.exclude_seqs_by_blast (find_homologs, ids_from_fasta_lines,       *)
(* ids_to_seq_file, compose_logfile_lines) are modelled from the design    *)
(* document, sections 4.1 to 4.5.                                          *)
(*                                                                         *)
(* Number encodings.  An e-value is represented by its decimal exponent    *)
(* (1e-10 is -10), which preserves <=.  percent_aligned is represented in  *)
(* percent (0.97 is 97); the coverage test alignment_length / query_length *)
(* >= percent_aligned becomes                                              *)
(* alignment_length * 100 >= percent_aligned * query_length.               *)
(***************************************************************************)
EXTENDS Integers, Sequences, FiniteSets

(***************************************************************************)
(* Bounds of the model.                                                    *)
(***************************************************************************)
\* largest number of alignment records the search engine returns
MaxHits == 2

(***************************************************************************)
(* Input domains.                                                          *)
(***************************************************************************)
\* sequence identifiers that may occur in the query file or in a hit
SeqIds == {"Q1", "Q2"}

Nucleotides == {"A"}

\* lengths of query sequences, and of alignments
SeqLengths == {1, 2}

\* sequence data of a FASTA record
SeqData == UNION {[1..n -> Nucleotides] : n \in SeqLengths}

\* a FASTA record of the query file
SequenceRecords == [id : SeqIds, seq : SeqData]

RECURSIVE SeqsUpTo(_, _)
\* the sequences of at most n elements of S
SeqsUpTo(S, n) ==
    IF n = 0 THEN {<<>>}
    ELSE LET shorter == SeqsUpTo(S, n - 1)
         IN  shorter \cup
             {Append(s, r) : s \in {t \in shorter : Len(t) = n - 1},
                             r \in S}

SeqRange(s) == {s[i] : i \in 1..Len(s)}

IdsOfRecords(records) == {records[i].id : i \in 1..Len(records)}

\* query files: FASTA records with unique identifiers (input contract)
QueryFiles ==
    {f \in SeqsUpTo(SequenceRecords, Cardinality(SeqIds)) :
        Cardinality(IdsOfRecords(f)) = Len(f)}

\* e-values (decimal exponents) a hit may carry
EValues == {-50, -10}

\* one row of the search engine's tabular output
AlignmentRecords ==
    [query_id : SeqIds, e_value : EValues, alignment_length : SeqLengths]

\* what the external search engine may print
BlastOutputs == SeqsUpTo(AlignmentRecords, MaxHits)

\* settings of -e (decimal exponent; the default is 1e-10)
EValueCutoffs == {-50, -10}

\* settings of -p in percent (the default is 0.97)
PercentCutoffs == {50, 97}

Options ==
    [e_value : EValueCutoffs, percent_aligned : PercentCutoffs,
     no_clean : BOOLEAN, no_format_db : BOOLEAN]

(***************************************************************************)
(* main(): constants of the script.                                        *)
(***************************************************************************)
\* db_ext without its last extension
db_ext_short == <<".nhr", ".nin", ".nsd", ".nsi">>

\* db_ext, in the order the script opens the files
db_ext == <<".nhr", ".nin", ".nsd", ".nsi", ".nsq">>

\* the index files of a formatted nucleotide database
IndexFiles == {".nhr", ".nin", ".nsd", ".nsi", ".nsq"}

\* the artifacts formatdb leaves beside the subject database
FormatDbArtifacts == IndexFiles \cup {"formatdb.log"}

\* the paths of the file objects in formatdb's result
formatdb_result_paths ==
    <<".nhr", ".nin", ".nsd", ".nsi", ".nsq", "formatdb.log">>

OutputFiles ==
    {"raw_blast_results.txt", "matching.fna", "non-matching.fna",
     "sequence_exclusion.log"}

\* a file of the output directory: whether it was written, and its lines
Absent == [written |-> FALSE, content |-> <<>>]

Written(lines) == [written |-> TRUE, content |-> lines]

VARIABLES
    pc,                 \* position of main()
    options,            \* the parsed command line
    querydb,            \* records of the query FASTA file
    index_files,        \* readable index files beside the subject database
    formatdb_called,    \* fdb(subject_db) was invoked
    formatdb_filepaths, \* as in main()
    opened,             \* index files opened by the --no_format_db check
    search_invoked,     \* find_homologs was called
    blast_out,          \* what the search engine printed
    blast_results,      \* find_homologs' results, as in main()
    hit_ids,
    removed_hit_ids,
    all_ids,
    included_ids,
    outputs,            \* content of each file of the output directory
    removed,            \* paths handed to remove_files
    error               \* the error that ended the run, or "none"

vars ==
    <<pc, options, querydb, index_files, formatdb_called, formatdb_filepaths,
      opened, search_invoked, blast_out, blast_results, hit_ids,
      removed_hit_ids, all_ids, included_ids, outputs, removed, error>>

Init ==
    /\ pc = "start"
    /\ options \in Options
    /\ querydb \in QueryFiles
    /\ index_files \in SUBSET IndexFiles
    /\ formatdb_called = FALSE
    /\ formatdb_filepaths = <<>>
    /\ opened = <<>>
    /\ search_invoked = FALSE
    /\ blast_out = <<>>
    /\ blast_results = <<>>
    /\ hit_ids = {}
    /\ removed_hit_ids = {}
    /\ all_ids = <<>>
    /\ included_ids = {}
    /\ outputs = [f \in OutputFiles |-> Absent]
    /\ removed = {}
    /\ error = "none"

(***************************************************************************)
(* qiime.exclude_seqs_by_blast, modelled from the design document.         *)
(***************************************************************************)
RECURSIVE ids_from_fasta_lines(_)
\* Sequence Set Reader, identifiers only: one identifier per record, in
\* file order
ids_from_fasta_lines(records) ==
    IF records = <<>> THEN <<>>
    ELSE <<Head(records).id>> \o ids_from_fasta_lines(Tail(records))

RECURSIVE query_length(_, _)
\* length of the query sequence named qid, looked up in the query records
\* (0 if there is none)
query_length(records, qid) ==
    IF records = <<>> THEN 0
    ELSE IF Head(records).id = qid THEN Len(Head(records).seq)
    ELSE query_length(Tail(records), qid)

\* Hit Filter, acceptance rule of one alignment record
passes_filter(record, qlen, e_value, percent_aligned) ==
    /\ record.e_value <= e_value
    /\ record.alignment_length * 100 >= percent_aligned * qlen

RECURSIVE filter_hits(_, _, _, _, _, _)
\* Hit Filter: one pass over the alignment records, in input order
filter_hits(records, seqs, e_value, percent_aligned, hits, seen) ==
    IF records = <<>>
    THEN [error |-> "none", hit_ids |-> hits, removed_hit_ids |-> seen \ hits]
    ELSE LET r == Head(records)
         IN  IF r.query_id \notin SeqRange(ids_from_fasta_lines(seqs))
             THEN [error |-> "ConsistencyError", hit_ids |-> {},
                   removed_hit_ids |-> {}]
             ELSE IF passes_filter(r, query_length(seqs, r.query_id),
                                   e_value, percent_aligned)
             THEN filter_hits(Tail(records), seqs, e_value, percent_aligned,
                              hits \cup {r.query_id}, seen \cup {r.query_id})
             ELSE filter_hits(Tail(records), seqs, e_value, percent_aligned,
                              hits, seen \cup {r.query_id})

\* find_homologs on the search engine's output `raw`: the raw results, the
\* accepted identifiers and the identifiers whose hits were all rejected
find_homologs(query_file, raw, e_value, percent_aligned) ==
    LET r == filter_hits(raw, query_file, e_value, percent_aligned, {}, {})
    IN  [error |-> r.error,
         blast_results |-> IF r.error = "none" THEN raw ELSE <<>>,
         hit_ids |-> r.hit_ids,
         removed_hit_ids |-> r.removed_hit_ids]

RECURSIVE ids_to_seq_file_reversed(_, _)
\* the extractor emitting the selected records last to first
ids_to_seq_file_reversed(ids, infile) ==
    IF infile = <<>> THEN <<>>
    ELSE ids_to_seq_file_reversed(ids, Tail(infile))
         \o (IF Head(infile).id \in ids THEN <<Head(infile)>> ELSE <<>>)

RECURSIVE ids_to_seq_file(_, _)
\* Sequence Extractor: scans the file and emits the records whose identifier
\* is in ids
ids_to_seq_file(ids, infile) ==
    IF infile = <<>> THEN <<>>
    ELSE (IF Head(infile).id \in ids THEN <<Head(infile)>> ELSE <<>>)
         \o ids_to_seq_file(ids, Tail(infile))

\* Run Report Builder: the counts the log reports
compose_logfile_lines(blast, opts, all, hits, removed_hits, included) ==
    <<[e_value |-> opts.e_value, percent_aligned |-> opts.percent_aligned,
       n_blast_results |-> Len(blast), n_all |-> Len(all),
       n_hits |-> Cardinality(hits), n_removed |-> Cardinality(removed_hits),
       n_included |-> Cardinality(included)]>>

(***************************************************************************)
(* main()                                                                  *)
(***************************************************************************)
RECURSIVE open_all(_, _)
\* [open(db_f, "U") for db_f in formatdb_filepaths]: the files opened before
\* the first IOError
open_all(paths, readable) ==
    IF paths = <<>> THEN <<>>
    ELSE IF Head(paths) \notin readable THEN <<>>
    ELSE <<Head(paths)>> \o open_all(Tail(paths), readable)

\* the call with e_value and percent_aligned in each other's place
find_homologs_call_swapped(raw, opts) ==
    find_homologs(querydb, raw, opts.percent_aligned, opts.e_value)

\* the call of find_homologs with the options of the run
find_homologs_call(raw, opts) ==
    find_homologs(querydb, raw, opts.e_value, opts.percent_aligned)

\* included_ids = set(all_ids)
included_ids_all(all, hits) == SeqRange(all)

\* included_ids = set(all_ids) - hit_ids - removed_hit_ids
included_ids_without_removed(all, hits) ==
    (SeqRange(all) \ hits) \ removed_hit_ids

\* included_ids = set(all_ids) & hit_ids
included_ids_intersection(all, hits) == SeqRange(all) \cap hits

\* included_ids = set(all_ids) - hit_ids
included_ids_of(all, hits) == SeqRange(all) \ hits

\* all_ids without the identifier of the first record
read_all_ids_skipping_first ==
    IF querydb = <<>> THEN <<>> ELSE ids_from_fasta_lines(Tail(querydb))

\* all_ids = ids_from_fasta_lines(open(options.querydb))
read_all_ids == ids_from_fasta_lines(querydb)

\* the sequences recorded in matching.fna
excluded_seqs == ids_to_seq_file(hit_ids, querydb)

Abort(err) ==
    /\ pc' = "aborted"
    /\ error' = err

\* not options.no_format_db: formatdb builds the index
FormatSubjectDb ==
    /\ pc = "start"
    /\ ~options.no_format_db
    /\ formatdb_called' = TRUE
    /\ \/ /\ index_files' = index_files \cup FormatDbArtifacts
          /\ formatdb_filepaths' = formatdb_result_paths
          /\ pc' = "blast"
          /\ error' = error
       \/ /\ Abort("ExternalToolFailure")
          /\ UNCHANGED <<index_files, formatdb_filepaths>>
    /\ UNCHANGED <<options, querydb, opened, search_invoked, blast_out,
                   blast_results, hit_ids, removed_hit_ids, all_ids,
                   included_ids, outputs, removed>>

\* options.no_format_db: the index files must exist and be readable
CheckFormattedDb ==
    /\ pc = "start"
    /\ options.no_format_db
    /\ formatdb_filepaths' = db_ext
    /\ opened' = open_all(db_ext, index_files)
    /\ IF Len(opened') = Len(db_ext)
       THEN pc' = "blast" /\ error' = error
       ELSE Abort("ConfigurationError")
    /\ UNCHANGED <<options, querydb, index_files, formatdb_called,
                   search_invoked, blast_out, blast_results, hit_ids,
                   removed_hit_ids, all_ids, included_ids, outputs, removed>>

\* the search with an error of find_homologs caught and ignored
PerformBlastSearchIgnoringError ==
    /\ pc = "blast"
    /\ search_invoked' = TRUE
    /\ \/ \E raw \in BlastOutputs :
            LET r == find_homologs_call(raw, options)
            IN  /\ blast_out' = raw
                /\ blast_results' = r.blast_results
                /\ hit_ids' = r.hit_ids
                /\ removed_hit_ids' = r.removed_hit_ids
                /\ pc' = "write_raw"
                /\ error' = error
       \/ /\ Abort("ExternalToolFailure")
          /\ UNCHANGED <<blast_out, blast_results, hit_ids, removed_hit_ids>>
    /\ UNCHANGED <<options, querydb, index_files, formatdb_called,
                   formatdb_filepaths, opened, all_ids, included_ids, outputs,
                   removed>>

\* Perform BLAST search
PerformBlastSearch ==
    /\ pc = "blast"
    /\ search_invoked' = TRUE
    /\ \/ \E raw \in BlastOutputs :
            LET r == find_homologs_call(raw, options)
            IN  /\ blast_out' = raw
                /\ blast_results' = r.blast_results
                /\ hit_ids' = r.hit_ids
                /\ removed_hit_ids' = r.removed_hit_ids
                /\ IF r.error = "none"
                   THEN pc' = "write_raw" /\ error' = error
                   ELSE Abort(r.error)
       \/ /\ Abort("ExternalToolFailure")
          /\ UNCHANGED <<blast_out, blast_results, hit_ids, removed_hit_ids>>
    /\ UNCHANGED <<options, querydb, index_files, formatdb_called,
                   formatdb_filepaths, opened, all_ids, included_ids, outputs,
                   removed>>

\* Create output folder; record raw blast results
RecordRawBlastResults ==
    /\ pc = "write_raw"
    /\ outputs' = [outputs EXCEPT
                     !["raw_blast_results.txt"] = Written(blast_results)]
    /\ pc' = "write_matching"
    /\ UNCHANGED <<options, querydb, index_files, formatdb_called,
                   formatdb_filepaths, opened, search_invoked, blast_out,
                   blast_results, hit_ids, removed_hit_ids, all_ids,
                   included_ids, removed, error>>

\* Record excluded seqs
RecordExcludedSeqs ==
    /\ pc = "write_matching"
    /\ outputs' = [outputs EXCEPT !["matching.fna"] = Written(excluded_seqs)]
    /\ pc' = "write_non_matching"
    /\ UNCHANGED <<options, querydb, index_files, formatdb_called,
                   formatdb_filepaths, opened, search_invoked, blast_out,
                   blast_results, hit_ids, removed_hit_ids, all_ids,
                   included_ids, removed, error>>

\* Record included (screened) seqs
RecordIncludedSeqs ==
    /\ pc = "write_non_matching"
    /\ all_ids' = read_all_ids
    /\ included_ids' = included_ids_of(all_ids', hit_ids)
    /\ outputs' = [outputs EXCEPT
                     !["non-matching.fna"] =
                         Written(ids_to_seq_file(included_ids', querydb))]
    /\ pc' = "write_log"
    /\ UNCHANGED <<options, querydb, index_files, formatdb_called,
                   formatdb_filepaths, opened, search_invoked, blast_out,
                   blast_results, hit_ids, removed_hit_ids, removed, error>>

\* compose and write sequence_exclusion.log
WriteLog ==
    /\ pc = "write_log"
    /\ outputs' = [outputs EXCEPT
                     !["sequence_exclusion.log"] =
                         Written(compose_logfile_lines(blast_results, options,
                                     all_ids, hit_ids, removed_hit_ids,
                                     included_ids))]
    /\ pc' = "cleanup"
    /\ UNCHANGED <<options, querydb, index_files, formatdb_called,
                   formatdb_filepaths, opened, search_invoked, blast_out,
                   blast_results, hit_ids, removed_hit_ids, all_ids,
                   included_ids, removed, error>>

\* open(path, 'w') or a write of an output file raises IOError
OutputIOError ==
    /\ pc \in {"write_raw", "write_matching", "write_non_matching",
               "write_log"}
    /\ Abort("IOError")
    /\ UNCHANGED <<options, querydb, index_files, formatdb_called,
                   formatdb_filepaths, opened, search_invoked, blast_out,
                   blast_results, hit_ids, removed_hit_ids, all_ids,
                   included_ids, outputs, removed>>

\* the cleanup without the test of options.no_clean
CleanupIgnoringNoClean ==
    /\ pc = "cleanup"
    /\ IF ~options.no_format_db
       THEN /\ removed' = SeqRange(formatdb_filepaths)
            /\ index_files' = index_files \ SeqRange(formatdb_filepaths)
       ELSE UNCHANGED <<removed, index_files>>
    /\ pc' = "done"
    /\ UNCHANGED <<options, querydb, formatdb_called, formatdb_filepaths,
                   opened, search_invoked, blast_out, blast_results, hit_ids,
                   removed_hit_ids, all_ids, included_ids, outputs, error>>

\* the cleanup without the test of options.no_format_db
CleanupIgnoringNoFormatDb ==
    /\ pc = "cleanup"
    /\ IF ~options.no_clean
       THEN /\ removed' = SeqRange(formatdb_filepaths)
            /\ index_files' = index_files \ SeqRange(formatdb_filepaths)
       ELSE UNCHANGED <<removed, index_files>>
    /\ pc' = "done"
    /\ UNCHANGED <<options, querydb, formatdb_called, formatdb_filepaths,
                   opened, search_invoked, blast_out, blast_results, hit_ids,
                   removed_hit_ids, all_ids, included_ids, outputs, error>>

\* if not options.no_clean: remove the files formatdb generated
Cleanup ==
    /\ pc = "cleanup"
    /\ IF ~options.no_clean /\ ~options.no_format_db
       THEN /\ removed' = SeqRange(formatdb_filepaths)
            /\ index_files' = index_files \ SeqRange(formatdb_filepaths)
       ELSE UNCHANGED <<removed, index_files>>
    /\ pc' = "done"
    /\ UNCHANGED <<options, querydb, formatdb_called, formatdb_filepaths,
                   opened, search_invoked, blast_out, blast_results, hit_ids,
                   removed_hit_ids, all_ids, included_ids, outputs, error>>

Next ==
    \/ FormatSubjectDb
    \/ CheckFormattedDb
    \/ PerformBlastSearch
    \/ RecordRawBlastResults
    \/ RecordExcludedSeqs
    \/ RecordIncludedSeqs
    \/ WriteLog
    \/ OutputIOError
    \/ Cleanup

Spec == Init /\ [][Next]_vars

TypeOK ==
    /\ pc \in {"start", "blast", "write_raw", "write_matching",
               "write_non_matching", "write_log", "cleanup", "done",
               "aborted"}
    /\ options \in Options
    /\ querydb \in QueryFiles
    /\ index_files \subseteq FormatDbArtifacts
    /\ hit_ids \subseteq SeqIds
    /\ removed_hit_ids \subseteq SeqIds
    /\ included_ids \subseteq SeqIds
    /\ removed \subseteq FormatDbArtifacts
    /\ error \in {"none", "ConfigurationError", "ConsistencyError",
                  "ExternalToolFailure", "IOError"}

(***************************************************************************)
(* Properties.                                                             *)
(***************************************************************************)
\* the identifiers of the query file
QueryUniverse == {querydb[i].id : i \in DOMAIN querydb}

Matching == outputs["matching.fna"]

NonMatching == outputs["non-matching.fna"]

FileIds(file) == {file.content[j].id : j \in DOMAIN file.content}

Count(x, s) == Cardinality({j \in DOMAIN s : s[j] = x})

NoOutputWritten == \A f \in OutputFiles : ~outputs[f].written

AllOutputsWritten == \A f \in OutputFiles : outputs[f].written

\* find_homologs returned without raising
SearchSucceeded == search_invoked /\ error \in {"none", "IOError"}

\* C1: once matching.fna and non-matching.fna are both written from an
\* accepted set inside the query universe, their identifiers are disjoint,
\* together they are the query universe, every record of the query file is
\* in exactly one of them, and without alignment records matching.fna is
\* empty and non-matching.fna is the whole query file.
C1_PartitionComplete ==
    (Matching.written /\ NonMatching.written /\ hit_ids \subseteq QueryUniverse)
    => /\ FileIds(Matching) \cap FileIds(NonMatching) = {}
       /\ FileIds(Matching) \cup FileIds(NonMatching) = QueryUniverse
       /\ \A i \in DOMAIN querydb :
            Count(querydb[i], Matching.content)
            + Count(querydb[i], NonMatching.content) = 1
       /\ Len(Matching.content) + Len(NonMatching.content) = Len(querydb)
       /\ blast_results = <<>>
          => Matching.content = <<>> /\ NonMatching.content = querydb

C1_Witness ==
    /\ pc = "done"
    /\ Matching.content # <<>>
    /\ NonMatching.content # <<>>

\* C2: non_matching_ids is the query universe minus accepted_ids, and every
\* identifier whose hits were all rejected is in non_matching_ids, is
\* written to non-matching.fna and is not written to matching.fna.
C2_RejectedAreRetained ==
    NonMatching.written
    => /\ included_ids = QueryUniverse \ hit_ids
       /\ removed_hit_ids \subseteq included_ids
       /\ removed_hit_ids \subseteq FileIds(NonMatching)
       /\ removed_hit_ids \cap FileIds(Matching) = {}

C2_Witness ==
    /\ pc = "done"
    /\ removed_hit_ids # {}
    /\ hit_ids # {}

\* out holds exactly the records of the query file whose identifier is in
\* ids, once each, in the order of the query file
ExtractedInFileOrder(out, ids) ==
    /\ \A j \in DOMAIN out :
         /\ out[j].id \in ids
         /\ \E i \in DOMAIN querydb : querydb[i] = out[j]
    /\ \A i \in DOMAIN querydb :
         querydb[i].id \in ids => Count(querydb[i], out) = 1
    /\ \A j, k \in DOMAIN out :
         j < k => \E i, l \in DOMAIN querydb :
                    i < l /\ querydb[i] = out[j] /\ querydb[l] = out[k]

\* C3: matching.fna and non-matching.fna each hold exactly the records of
\* the query file whose identifier is in the set handed to the extractor,
\* in the relative order of the query file.
C3_ExtractorKeepsFileOrder ==
    /\ Matching.written => ExtractedInFileOrder(Matching.content, hit_ids)
    /\ NonMatching.written
       => ExtractedInFileOrder(NonMatching.content, included_ids)

C3_Witness ==
    /\ pc = "done"
    /\ Len(Matching.content) = 2

\* the sequence length of the query named q
QLen(q) ==
    LET i == CHOOSE i \in DOMAIN querydb : querydb[i].id = q
    IN  Len(querydb[i].seq)

\* alignment record i passes both thresholds of the run
RecordAccepted(i) ==
    /\ blast_results[i].e_value <= options.e_value
    /\ blast_results[i].alignment_length * 100
         >= options.percent_aligned * QLen(blast_results[i].query_id)

RecordsOf(q) == {i \in DOMAIN blast_results : blast_results[i].query_id = q}

\* C4: after a successful search, q is accepted iff one of its alignment
\* records passes both thresholds, q is rejected iff it has alignment
\* records and none passes, a query without records is in neither set, and
\* the two sets are disjoint.
C4_AcceptanceRule ==
    SearchSucceeded
    => /\ \A q \in SeqIds :
            /\ q \in hit_ids <=> \E i \in RecordsOf(q) : RecordAccepted(i)
            /\ q \in removed_hit_ids
               <=> /\ RecordsOf(q) # {}
                   /\ \A i \in RecordsOf(q) : ~RecordAccepted(i)
            /\ RecordsOf(q) = {} => q \notin hit_ids \cup removed_hit_ids
       /\ hit_ids \cap removed_hit_ids = {}

\* two records of one query, the first failing the e-value cutoff and the
\* second passing both thresholds
C4_Witness ==
    /\ SearchSucceeded
    /\ Len(blast_results) = 2
    /\ blast_results[1].query_id = blast_results[2].query_id
    /\ blast_results[1].e_value > options.e_value
    /\ RecordAccepted(2)
    /\ blast_results[2].query_id \in hit_ids
    /\ QueryUniverse \ (hit_ids \cup removed_hit_ids) # {}

C6_UnknownQueryAborts ==
    /\ (\E i \in DOMAIN blast_out : blast_out[i].query_id \notin QueryUniverse)
       => /\ pc = "aborted"
          /\ error = "ConsistencyError"
          /\ hit_ids = {}
          /\ removed_hit_ids = {}
          /\ NoOutputWritten
    /\ pc = "done"
       => /\ blast_results = blast_out
          /\ \A i \in DOMAIN blast_results :
               blast_results[i].query_id \in QueryUniverse
          /\ hit_ids \cup removed_hit_ids \subseteq QueryUniverse

\* a record of a known query followed by a record of an unknown one
C6_Witness ==
    /\ pc = "aborted"
    /\ error = "ConsistencyError"
    /\ Len(blast_out) = 2
    /\ blast_out[1].query_id \in QueryUniverse
    /\ blast_out[2].query_id \notin QueryUniverse

\* o is at least as tight as the thresholds of the run
Tighter(o) ==
    /\ o.e_value <= options.e_value
    /\ o.percent_aligned >= options.percent_aligned

\* C7: on the alignment records and query file of the run, any tighter
\* threshold setting accepts a subset of the accepted set and leaves a
\* superset of the non-matching set.
C7_ThresholdMonotonicity ==
    SearchSucceeded
    => \A o \in Options :
         Tighter(o)
         => LET t == find_homologs_call(blast_results, o)
            IN  /\ t.error = "none"
                /\ t.hit_ids \subseteq hit_ids
                /\ included_ids_of(read_all_ids, hit_ids)
                     \subseteq included_ids_of(read_all_ids, t.hit_ids)

\* a tighter setting moves an identifier out of the accepted set
C7_Witness ==
    /\ SearchSucceeded
    /\ \E o \in Options :
         /\ Tighter(o)
         /\ find_homologs_call(blast_results, o).hit_ids # hit_ids
         /\ find_homologs_call(blast_results, o).hit_ids # {}

\* C8: the index is built iff no_format_db is not set; with it set, the
\* search runs only after all five index files were opened, and an
\* unreadable index file ends the run in a configuration error with no
\* search and no output.
C8_IndexBuildOrCheck ==
    /\ formatdb_called <=> (pc # "start" /\ ~options.no_format_db)
    /\ (options.no_format_db /\ search_invoked)
       => /\ opened = <<".nhr", ".nin", ".nsd", ".nsi", ".nsq">>
          /\ IndexFiles \subseteq index_files
    /\ (options.no_format_db /\ pc # "start"
        /\ ~(IndexFiles \subseteq index_files))
       => /\ pc = "aborted"
          /\ error = "ConfigurationError"
          /\ ~search_invoked
          /\ NoOutputWritten

\* the third index file is the unreadable one
C8_Witness ==
    /\ pc = "aborted"
    /\ error = "ConfigurationError"
    /\ Len(opened) = 2

\* C9: index artifacts are removed only in a run that built the index, was
\* not asked to keep it, searched successfully and wrote all four outputs;
\* an aborted run and a run with no_clean remove nothing.
C9_CleanupOnlyAfterSuccess ==
    /\ removed # {}
       => /\ pc = "done"
          /\ error = "none"
          /\ search_invoked
          /\ AllOutputsWritten
          /\ ~options.no_clean
          /\ formatdb_called
          /\ removed \subseteq FormatDbArtifacts
    /\ (pc = "aborted" \/ options.no_clean)
       => /\ removed = {}
          /\ formatdb_called
             => SeqRange(formatdb_filepaths) \subseteq index_files

C9_Witness ==
    /\ pc = "done"
    /\ removed = FormatDbArtifacts
    /\ index_files = {}

\* C10: with no_format_db set, no step of the run changes the index files
\* beside the subject database or removes a file.
C10_PreexistingIndexUntouched ==
    [][options.no_format_db
       => (index_files' = index_files /\ removed' = {})]_vars

C10_Witness ==
    /\ pc = "done"
    /\ options.no_format_db
    /\ ~options.no_clean
    /\ index_files = IndexFiles

=============================================================================
